---- MODULE Spec2Model ----
(***************************************************************************)
(* A model of the Flask + Strawberry + MongoDB user service:               *)
(*   database.py          environment lookup, client and database handle   *)
(*   models/user_model.py the four data-access functions                   *)
(*   schema.py            the GraphQL resolvers shaping documents to User  *)
(*   app.py               the host that serves the schema                  *)
(* Each request runs in one of the host's execution contexts; every call   *)
(* on the collection (find, find_one, insert_one, delete_one) is one       *)
(* atomic step of the store, so add_user, which makes two calls, is two    *)
(* steps and other requests may run between them.                          *)
(***************************************************************************)
EXTENDS Integers, Sequences, FiniteSets

\* ------------------------------------------------------------- bounds

\* Number of bytes of an identifier (12 in bson; scaled down).  Its string
\* form has two hex digits per byte.
IdLen == 1
\* Value of the driver's identifier generator when the process starts.
FirstOid == 9
\* Cap on the number of insert_one calls in a run.
MaxAdds == 2
\* Number of execution contexts serving requests concurrently.
NumReq == 2

Names == {"Alice", "Bob"}
Emails == {"alice@example.com"}

\* ------------------------------------------------- identifiers (bson)
\* An ObjectId is the sequence of its bytes (ObjectId.binary).

HexLower == <<"0","1","2","3","4","5","6","7","8","9","a","b","c","d","e","f">>
HexUpper == <<"0","1","2","3","4","5","6","7","8","9","A","B","C","D","E","F">>
\* The ASCII whitespace bytes.fromhex skips (Py_ISSPACE): space and the
\* characters 0x09 to 0x0d; the vertical tab, 0x0b, is written literally.
Whitespace == {" ", "\t", "\n", "", "\f", "\r"}

RECURSIVE BytesOf(_, _)
\* The w low-order bytes of n, most significant first.
BytesOf(n, w) == IF w = 0 THEN <<>>
                 ELSE Append(BytesOf(n \div 256, w - 1), n % 256)

RECURSIVE HexOf(_)
\* binascii.hexlify: two lowercase hex digits per byte.
HexOf(bytes) == IF bytes = <<>> THEN <<>>
                ELSE <<HexLower[(bytes[1] \div 16) + 1], HexLower[(bytes[1] % 16) + 1]>>
                     \o HexOf(Tail(bytes))

\* str(u["_id"]): the hex rendering of an ObjectId.
StrOid(oid) == HexOf(oid)

IsHexChar(c) == \E k \in 1..16 : HexLower[k] = c \/ HexUpper[k] = c
HexVal(c) == (CHOOSE k \in 1..16 : HexLower[k] = c \/ HexUpper[k] = c) - 1

RECURSIVE FromHexOk(_)
\* bytes.fromhex(s) succeeds: whitespace is skipped between bytes, and every
\* byte is two adjacent hex digits of either case.
FromHexOk(s) ==
  IF s = <<>> THEN TRUE
  ELSE IF s[1] \in Whitespace THEN FromHexOk(Tail(s))
  ELSE /\ Len(s) >= 2
       /\ IsHexChar(s[1])
       /\ IsHexChar(s[2])
       /\ FromHexOk(SubSeq(s, 3, Len(s)))

RECURSIVE FromHex(_)
\* bytes.fromhex(s) when it succeeds.
FromHex(s) ==
  IF s = <<>> THEN <<>>
  ELSE IF s[1] \in Whitespace THEN FromHex(Tail(s))
  ELSE <<16 * HexVal(s[1]) + HexVal(s[2])>> \o FromHex(SubSeq(s, 3, Len(s)))

\* ObjectId(s) does not raise InvalidId: s has 2 * IdLen characters and
\* bytes.fromhex(s) succeeds.  Nothing checks how many bytes came out.
ValidOid(s) == Len(s) = 2 * IdLen /\ FromHexOk(s)

\* ObjectId(s) for such an s: the bytes it holds, fewer than IdLen when s
\* contains whitespace.
ParseOid(s) == FromHex(s)

\* An ObjectId that does not hold IdLen bytes.
Truncated(oid) == Len(oid) # IdLen

RECURSIVE UpperOf(_)
UpperOf(s) == IF s = <<>> THEN <<>>
              ELSE <<HexUpper[HexVal(s[1]) + 1]>> \o UpperOf(Tail(s))

\* ------------------------------------------------------------ inputs

NotAValidId == <<"n","o","t","-","a","-","v","a","l","i","d","-","i","d">>
\* Identifiers the generator can mint in a run, and one it never mints.
OidRange == {BytesOf(n, IdLen) : n \in FirstOid..(FirstOid + MaxAdds)}
\* The leading digits of the first minted id followed by a space and a
\* vertical tab (0x0b).
SpacedId == SubSeq(StrOid(BytesOf(FirstOid, IdLen)), 1, 2 * IdLen - 2) \o <<" ", "">>
\* The id arguments clients send: every mintable id as rendered (the last is
\* never minted), the second minted one in upper case, and malformed strings
\* (wrong length, not hex, hex with trailing whitespace).
IdArgs == {StrOid(oid) : oid \in OidRange}
          \cup {UpperOf(StrOid(BytesOf(FirstOid + 1, IdLen)))}
          \cup {NotAValidId, [k \in 1..(2 * IdLen) |-> "g"], SpacedId}

Absent == "<None>"
UriValues == {Absent, "mongodb://localhost:27017"}
DbValues == {Absent, "", "demo"}

\* ------------------------------------------------------------- state

VARIABLES
  phase,      \* "boot", "configured", "failed" or "serving"
  environ,    \* os.environ: MONGO_URI and MONGO_DB, Absent when unset
  mongo_uri,  \* database.mongo_uri
  mongo_db,   \* database.mongo_db
  users_collection, \* the documents of db["usersData"], in natural order
  nextOid,    \* the driver's identifier generator
  adding,     \* the add_user calls between their two calls on the store
  last,       \* the request that completed last and what it answered
  returned,   \* history: the users add_user has returned
  liveRet,    \* history: those of them with no delete_user on their id since
  deletedLog  \* history: the ids for which delete_user answered true

vars == <<phase, environ, mongo_uri, mongo_db, users_collection, nextOid,
          adding, last, returned, liveRet, deletedLog>>

NoArgs == [id |-> <<>>, name |-> "", email |-> ""]

\* ------------------------------------------------------ result shapes

Null == [kind |-> "null"]
Fault(e) == [kind |-> "fault", error |-> e]
Bool(b) == [kind |-> "bool", value |-> b]
UserList(items) == [kind |-> "list", items |-> items]

\* A shaping with name and email exchanged.
ShapeSwapped(u) == [kind |-> "user", id |-> StrOid(u._id), name |-> u.email, email |-> u.name]
\* User(id=str(u["_id"]), name=u["name"], email=u["email"])
Shape(u) == [kind |-> "user", id |-> StrOid(u._id), name |-> u.name, email |-> u.email]

\* ------------------------------------------- models/user_model.py

\* users_collection.find_one({"_id": oid}): the first match, as a sequence of
\* zero or one document (<<>> is None).
FindOne(coll, oid) ==
  LET hits == {k \in 1..Len(coll) : coll[k]._id = oid}
  IN IF hits = {} THEN <<>>
     ELSE <<coll[CHOOSE k \in hits : \A j \in hits : k <= j]>>

RECURSIVE RemoveAt(_, _)
RemoveAt(coll, k) == IF k = 1 THEN Tail(coll)
                     ELSE <<Head(coll)>> \o RemoveAt(Tail(coll), k - 1)

\* A delete that removes the head of the collection whenever anything matches.
DeleteOneHead(coll, oid) ==
  IF \E k \in 1..Len(coll) : coll[k]._id = oid THEN Tail(coll) ELSE coll

\* users_collection.delete_one({"_id": oid}): the collection afterwards.
DeleteOne(coll, oid) ==
  LET hits == {k \in 1..Len(coll) : coll[k]._id = oid}
  IN IF hits = {} THEN coll
     ELSE RemoveAt(coll, CHOOSE k \in hits : \A j \in hits : k <= j)

\* result.deleted_count of that delete_one.
DeletedCount(coll, oid) == Len(coll) - Len(DeleteOne(coll, oid))

\* get_all_users(): list(users_collection.find())
get_all_users(coll) == coll

\* get_user_by_id(user_id) for a user_id ObjectId accepts.
get_user_by_id(coll, user_id) == FindOne(coll, ParseOid(user_id))

\* An identifier derived from the number of documents now stored.
MintOidFromStored == BytesOf(FirstOid + Len(users_collection), IdLen)

\* The identifier insert_one mints for a document that has none.
MintOid == BytesOf(nextOid, IdLen)

delete_userAtLeastZero(coll, user_id) == DeletedCount(coll, ParseOid(user_id)) >= 0

\* delete_user(user_id) for a user_id ObjectId accepts: deleted_count > 0.
delete_user(coll, user_id) == DeletedCount(coll, ParseOid(user_id)) > 0

\* ------------------------------------------------------- schema.py

\* A listing that skips the first document.
QueryUsersSkipFirst(coll) ==
  UserList([k \in 1..(Len(coll) - 1) |-> Shape(coll[k + 1])])

\* Query.users
QueryUsers(coll) ==
  UserList([k \in 1..Len(get_all_users(coll)) |-> Shape(get_all_users(coll)[k])])

\* What the store may do with the ObjectId built from id: a truncated one
\* matches no document, or is rejected as malformed by the driver or server.
Rejections(id) ==
  IF ValidOid(id) /\ Truncated(ParseOid(id)) THEN BOOLEAN ELSE {FALSE}

\* Query.user_by_id: ObjectId(id) raises InvalidId on a malformed id, and
\* nothing catches it, nor a failure of the store call.
QueryUserById(coll, id, rejected) ==
  IF ~ValidOid(id) THEN Fault("InvalidId")
  ELSE IF rejected THEN Fault("StoreError")
  ELSE LET u == get_user_by_id(coll, id)
       IN IF u # <<>> THEN Shape(u[1]) ELSE Null

\* Mutation.add_user after the insert: the read-back u, then u["_id"], which
\* raises TypeError when u is None.
MutationAddUserResult(coll, inserted_id) ==
  LET u == FindOne(coll, inserted_id)
  IN IF u = <<>> THEN Fault("TypeError") ELSE Shape(u[1])

\* Mutation.delete_user: ObjectId(id) raises InvalidId on a malformed id.
MutationDeleteUser(coll, id, rejected) ==
  IF ~ValidOid(id) THEN Fault("InvalidId")
  ELSE IF rejected THEN Fault("StoreError")
  ELSE Bool(delete_user(coll, id))

\* ----------------------------------------------------- database.py

\* load_dotenv(): a variable of the .env file is set unless already set.
LoadDotenv(env, file) ==
  [v \in DOMAIN env |-> IF env[v] = Absent THEN file[v] ELSE env[v]]

\* A database handle that opens under any name but the empty one.
DatabaseOpensUnnamed(uri, db) == db # ""

\* client = MongoClient(mongo_uri); db = client[mongo_db].  MongoClient(None)
\* falls back to the driver's default host and connects lazily; client[name]
\* raises TypeError for None and InvalidName for the empty string.
DatabaseOpens(uri, db) == db # Absent /\ db # ""

\* ------------------------------------------------------------ actions

Init ==
  /\ phase = "boot"
  /\ environ \in [MONGO_URI : UriValues, MONGO_DB : DbValues]
  /\ mongo_uri = Absent
  /\ mongo_db = Absent
  /\ users_collection = <<>>
  /\ nextOid = FirstOid
  /\ adding = {}
  /\ last = [op |-> "none", args |-> NoArgs, out |-> Null]
  /\ returned = {}
  /\ liveRet = {}
  /\ deletedLog = <<>>

\* database.py lines 5-7
LoadEnv ==
  /\ phase = "boot"
  /\ \E file \in [MONGO_URI : UriValues, MONGO_DB : DbValues] :
       /\ environ' = LoadDotenv(environ, file)
       /\ mongo_uri' = environ'.MONGO_URI
       /\ mongo_db' = environ'.MONGO_DB
  /\ phase' = "configured"
  /\ UNCHANGED <<users_collection, nextOid, adding, last, returned, liveRet, deletedLog>>

\* database.py lines 9-10, then the imports of user_model, schema and app
Startup ==
  /\ phase = "configured"
  /\ phase' = IF DatabaseOpens(mongo_uri, mongo_db) THEN "serving" ELSE "failed"
  /\ UNCHANGED <<environ, mongo_uri, mongo_db, users_collection, nextOid,
                 adding, last, returned, liveRet, deletedLog>>

\* Some execution context is free to take a request.
SomeReady == phase = "serving" /\ Cardinality(adding) < NumReq

\* query { users }
Users ==
  /\ SomeReady
  /\ last' = [op |-> "users", args |-> NoArgs, out |-> QueryUsers(users_collection)]
  /\ UNCHANGED <<phase, environ, mongo_uri, mongo_db, users_collection, nextOid,
                 adding, returned, liveRet, deletedLog>>

\* query { userById(id) }
UserById(id, rejected) ==
  /\ SomeReady
  /\ last' = [op |-> "user_by_id", args |-> [NoArgs EXCEPT !.id = id],
              out |-> QueryUserById(users_collection, id, rejected)]
  /\ UNCHANGED <<phase, environ, mongo_uri, mongo_db, users_collection, nextOid,
                 adding, returned, liveRet, deletedLog>>

\* mutation { addUser(name, email) }, first call: insert_one
AddUserInsert(name, email) ==
  /\ SomeReady
  /\ nextOid < FirstOid + MaxAdds
  /\ users_collection' = Append(users_collection,
                                [_id |-> MintOid, name |-> name, email |-> email])
  /\ nextOid' = nextOid + 1
  /\ adding' = adding \cup {[name |-> name, email |-> email, inserted_id |-> MintOid]}
  /\ UNCHANGED <<phase, environ, mongo_uri, mongo_db, last, returned, liveRet, deletedLog>>

\* mutation { addUser(name, email) }, second call: find_one, then the shaping
AddUserReturn(call) ==
  /\ phase = "serving"
  /\ LET out == MutationAddUserResult(users_collection, call.inserted_id)
         rec == [id |-> out.id, name |-> call.name, email |-> call.email]
     IN /\ last' = [op |-> "add_user",
                    args |-> [NoArgs EXCEPT !.name = call.name, !.email = call.email],
                    out |-> out]
        /\ returned' = IF out.kind = "user" THEN returned \cup {rec} ELSE returned
        /\ liveRet' = IF out.kind = "user" THEN liveRet \cup {rec} ELSE liveRet
  /\ adding' = adding \ {call}
  /\ UNCHANGED <<phase, environ, mongo_uri, mongo_db, users_collection, nextOid, deletedLog>>

\* mutation { deleteUser(id) }
DeleteUser(id, rejected) ==
  /\ SomeReady
  /\ LET out == MutationDeleteUser(users_collection, id, rejected)
     IN /\ last' = [op |-> "delete_user", args |-> [NoArgs EXCEPT !.id = id], out |-> out]
        /\ users_collection' = IF out.kind = "fault" THEN users_collection
                               ELSE DeleteOne(users_collection, ParseOid(id))
        /\ deletedLog' = IF out = Bool(TRUE) THEN Append(deletedLog, ParseOid(id))
                         ELSE deletedLog
        /\ liveRet' = IF out.kind = "fault" THEN liveRet
                      ELSE {e \in liveRet : ParseOid(e.id) # ParseOid(id)}
  /\ UNCHANGED <<phase, environ, mongo_uri, mongo_db, nextOid, adding, returned>>

Next ==
  \/ LoadEnv
  \/ Startup
  \/ Users
  \/ \E rejected \in BOOLEAN : \E id \in IdArgs :
       rejected \in Rejections(id) /\ UserById(id, rejected)
  \/ \E name \in Names, email \in Emails : AddUserInsert(name, email)
  \/ \E call \in adding : AddUserReturn(call)
  \/ \E rejected \in BOOLEAN : \E id \in IdArgs :
       rejected \in Rejections(id) /\ DeleteUser(id, rejected)

Spec == Init /\ [][Next]_vars

\* ------------------------------------------------------------- claims

Count(log, i) == Cardinality({k \in 1..Len(log) : log[k] = i})
Minted == {BytesOf(n, IdLen) : n \in FirstOid..(nextOid - 1)}
ArgOid == ParseOid(last.args.id)
\* A well-formed store identifier: 2 * IdLen hex digits and nothing else.
WellFormedId(s) == Len(s) = 2 * IdLen /\ \A k \in 1..Len(s) : IsHexChar(s[k])
IsLowerHex(s) == \A k \in 1..Len(s) : \E h \in 1..16 : HexLower[h] = s[k]

\* C1: when user_by_id(i) answers and i is the id of a User that add_user
\* returned, with no delete_user on that id since, the answer is a User with
\* id i and the name and email that were given to add_user.
C1_AddThenGet ==
  last.op = "user_by_id" =>
    \A e \in liveRet :
      e.id = last.args.id =>
        last.out = [kind |-> "user", id |-> e.id, name |-> e.name, email |-> e.email]

C1_Witness ==
  /\ last.op = "user_by_id"
  /\ last.out.kind = "user"
  /\ \E e \in liveRet : e.id = last.args.id /\ e.name = "Bob"

\* C2: for an id that add_user returned, delete_user never raises and has
\* answered true exactly once as soon as any delete_user on it has answered:
\* the first one answers true, every later one false.
C2_DeleteTrueOnce ==
  \A e \in returned :
    /\ Count(deletedLog, ParseOid(e.id)) <= 1
    /\ (last.op = "delete_user" /\ ValidOid(last.args.id) /\ ArgOid = ParseOid(e.id))
         => (last.out.kind = "bool" /\ Count(deletedLog, ParseOid(e.id)) = 1)

C2_Witness ==
  /\ last.op = "delete_user"
  /\ last.out = Bool(FALSE)
  /\ \E e \in returned : e.id = last.args.id /\ Count(deletedLog, ParseOid(e.id)) = 1

\* C3: user_by_id answers null, and never a fault, for an id that is
\* malformed or was never minted by add_user.
C3_UserByIdNullNeverFault ==
  (last.op = "user_by_id" /\ (~WellFormedId(last.args.id) \/ ArgOid \notin Minted))
    => last.out = Null

\* C4: delete_user on a malformed id answers false, never a fault.
C4_DeleteMalformedFalse ==
  (last.op = "delete_user" /\ ~WellFormedId(last.args.id)) => last.out = Bool(FALSE)

\* C5: add_user always answers a User with a non-null id and the given name
\* and email, never a fault, whatever runs between its two store calls.
C5_AddAlwaysSucceeds ==
  last.op = "add_user" =>
    /\ last.out.kind = "user"
    /\ last.out.id # <<>>
    /\ last.out.name = last.args.name
    /\ last.out.email = last.args.email

\* C6: once delete_user has answered true for an id, every later user_by_id of
\* that id answers null and no later users() lists an entity with that id.
C6_DeletedStaysGone ==
  \A n \in 1..Len(deletedLog) :
    /\ (last.op = "user_by_id" /\ ValidOid(last.args.id) /\ ArgOid = deletedLog[n])
         => last.out = Null
    /\ last.op = "users" =>
         \A k \in 1..Len(last.out.items) :
           ~(ValidOid(last.out.items[k].id)
             /\ ParseOid(last.out.items[k].id) = deletedLog[n])

C6_Witness ==
  /\ deletedLog # <<>>
  /\ users_collection # <<>>
  /\ last.op = "user_by_id"
  /\ ValidOid(last.args.id)
  /\ ArgOid = deletedLog[1]
  /\ last.out = Null

\* C7: users() answers one entity per stored record, in order, each with the
\* record's id as a non-null lowercase hex string that parses back to it, its
\* name and its email; on an empty store it answers the empty sequence.
C7_UsersExact ==
  [][(last'.op = "users" /\ adding' = adding) =>
       /\ last'.out.kind = "list"
       /\ Len(last'.out.items) = Len(users_collection)
       /\ (users_collection = <<>> => last'.out.items = <<>>)
       /\ \A k \in 1..Len(users_collection) :
            /\ last'.out.items[k].kind = "user"
            /\ last'.out.items[k].id # <<>>
            /\ IsLowerHex(last'.out.items[k].id)
            /\ ValidOid(last'.out.items[k].id)
            /\ ParseOid(last'.out.items[k].id) = users_collection[k]._id
            /\ last'.out.items[k].name = users_collection[k].name
            /\ last'.out.items[k].email = users_collection[k].email]_vars

C7_Witness ==
  /\ last.op = "users"
  /\ Len(last.out.items) = 2
  /\ Len(users_collection) = 2

UniqueIds ==
  \A j, k \in 1..Len(users_collection) :
    j # k => users_collection[j]._id # users_collection[k]._id
FreshReturn ==
  (adding' # adding /\ adding' \subseteq adding /\ last'.out.kind = "user")
    => \A e \in returned : e.id # last'.out.id
RecordsImmutable ==
  \A j \in 1..Len(users_collection), k \in 1..Len(users_collection') :
    users_collection'[k]._id = users_collection[j]._id
      => users_collection'[k] = users_collection[j]

\* C8: no two stored records share an id, the id add_user returns differs from
\* every id an earlier add_user returned (deleted or not), and no step changes
\* the id, name or email of a stored record.
C8_UniqueImmutable == []UniqueIds /\ [][FreshReturn /\ RecordsImmutable]_vars

C8_Witness ==
  /\ Cardinality(returned) = 2
  /\ deletedLog # <<>>
  /\ Len(users_collection) = 1

\* C9 as stated: serving is reached only with both MONGO_URI and MONGO_DB set.
C9_BothRequired ==
  phase = "serving" => (environ.MONGO_URI # Absent /\ environ.MONGO_DB # Absent)

\* C9 as amended: startup fails whenever MONGO_DB is absent once the .env
\* file is loaded; serving is reached only with MONGO_DB set.
C9_DbRequired ==
  (phase \in {"serving", "failed"} /\ environ.MONGO_DB = Absent) => phase = "failed"

C9_Witness ==
  /\ phase = "failed"
  /\ environ.MONGO_DB = Absent
  /\ environ.MONGO_URI # Absent

Inserting == adding' # adding /\ adding \subseteq adding'
Others(coll, oid) == LET Keep(d) == d._id # oid IN SelectSeq(coll, Keep)

\* C10: users(), user_by_id and the read-back of add_user leave the collection
\* unchanged; the insert of add_user appends exactly one record; delete_user
\* removes at most the record with the given id, leaves every other record in
\* place, and changes nothing unless it answers true.
C10_Frame ==
  [][IF Inserting
       THEN \E name \in Names, email \in Emails, oid \in OidRange :
              users_collection' =
                Append(users_collection, [_id |-> oid, name |-> name, email |-> email])
     ELSE IF phase = "serving" /\ last'.op = "delete_user"
       THEN /\ last'.out # Bool(TRUE) => users_collection' = users_collection
            /\ last'.out = Bool(TRUE) =>
                 /\ Len(users_collection') >= Len(users_collection) - 1
                 /\ Others(users_collection', ParseOid(last'.args.id))
                      = Others(users_collection, ParseOid(last'.args.id))
                 /\ Others(users_collection', ParseOid(last'.args.id)) = users_collection'
     ELSE users_collection' = users_collection]_vars

C10_Witness ==
  /\ last.op = "delete_user"
  /\ last.out = Bool(TRUE)
  /\ Len(users_collection) = 1
  /\ users_collection[1]._id = BytesOf(FirstOid + 1, IdLen)

====
